---- MODULE Spec2Model ----
(***************************************************************************)
(* rasterinlay: the redistribution engine of rasterinlay/distribute.py     *)
(* (fraction_inlay, inlay, imprint_constraints) and the block partition    *)
(* of rasterinlay/blocks.py (find_blocks and what it calls).               *)
(*                                                                         *)
(* A grid is a function from cells <<row, column>> (0-based, as in numpy)  *)
(* to integers.  A block is a pair of slices, <<rows, columns>>, each a    *)
(* record [start, stop], as returned by get_block.                         *)
(***************************************************************************)
EXTENDS Integers, Sequences, FiniteSets, TLC

VARIABLES
    raster,              \* the raster grid (mutated in place by the views)
    constraints,         \* the constraints grid
    bblocks,             \* imprint_constraints: the ordered regions
    cell_unit,           \* inlay_callback_kwargs
    cell_max,
    invalid_in,
    invalid_value,
    i,                   \* imprint_constraints: index of enumerate(bblocks)
    block_report,        \* imprint_constraints: ok / jammed / ignored / failed
    capacities,          \* imprint_constraints: index -> capacity
    _capacity,           \* imprint_constraints: what inlay returned last
    pc,                  \* position of the running call
    err,                 \* the exception that ended the call, if any
    raster_pre,          \* the raster as the current fraction_inlay call got it
    invalid_mask,        \* fraction_inlay locals, live inside the fill loop
                         \* (invalid_mask is assigned only when invalid_in
                         \* is not none; {} stands for the unassigned name)
    raster_total,
    _data_total_initial,
    block_capacity,
    _raster_block_orig,
    block_shape,         \* find_blocks: the arguments beside raster
    outvalue,
    counts,              \* find_blocks: the counts matrix
    blocks,              \* find_blocks: the list returned
    _blocks,             \* find_blocks: the lists of the pass under way
    multiblocks,
    overloaded,
    tol,                 \* split_multiblock: the argument tolerance
    _last_adding,        \* get_counts: the locals of its two loops
    pos                  \* get_counts: the loop index, c and then r

inlay_vars == <<raster, constraints, bblocks, cell_unit, cell_max, invalid_in,
                invalid_value, i, block_report, capacities, _capacity, pc, err,
                raster_pre, invalid_mask, raster_total, _data_total_initial,
                block_capacity, _raster_block_orig>>

blocks_vars == <<block_shape, outvalue, counts, blocks, _blocks, multiblocks,
                 overloaded, tol, _last_adding, pos>>

vars == <<inlay_vars, blocks_vars>>

----------------------------------------------------------------------------
(* Bounds of the model. *)

\* the rasters of the redistribution runs have one row of GridW cells
GridW == 3
\* valid raster cells hold 0 .. MaxRaster
MaxRaster == 2
\* valid constraint cells hold 0 .. MaxConst
MaxConst == 2
\* cell_max is drawn from 1 .. MaxCellMax
MaxCellMax == 2
\* cell_unit is drawn from 1 .. MaxUnit
MaxUnit == 2

----------------------------------------------------------------------------
(* Blocks, views and sums. *)

\* a local that is not bound / a capacity of None
None == <<>>

slice(start, stop) == [start |-> start, stop |-> stop]

\* the cells a block selects
CellsOf(sblock) ==
    { <<r, c>> : r \in sblock[1].start .. (sblock[1].stop - 1),
                 c \in sblock[2].start .. (sblock[2].stop - 1) }

\* position of cell p in the row-major (C order) flattening of the view
FlatIndex(sblock, p) ==
    (p[1] - sblock[1].start) * (sblock[2].stop - sblock[2].start)
        + (p[2] - sblock[2].start)

RECURSIVE SumOver(_, _)
\* np.sum of grid g over the cells S
SumOver(g, S) ==
    IF S = {} THEN 0
    ELSE LET p == CHOOSE q \in S : TRUE
         IN g[p] + SumOver(g, S \ {p})

\* the distinct values of grid g over the cells S
Uniques(g, S) == { g[p] : p \in S }

----------------------------------------------------------------------------
(* fraction_inlay, the part before the fill loop. *)

\* the cells selected by invalid_mask (True where the cell is valid); with
\* InvalidCellsIn.none the whole block is used
ValidCells(sblock) ==
    IF invalid_in = "constraints"
    THEN { p \in CellsOf(sblock) : constraints[p] # invalid_value }
    ELSE IF invalid_in = "raster"
    THEN { p \in CellsOf(sblock) : raster[p] # invalid_value }
    ELSE CellsOf(sblock)

\* a slip: the size of the block instead of the size of the masked block
BlockSize(sblock) == Cardinality(CellsOf(sblock))

raster_nbr(sblock) == Cardinality(ValidCells(sblock))

\* a slip: the total of the block instead of the total of the masked block
BlockTotal(sblock) == SumOver(raster, CellsOf(sblock))

RasterTotal(sblock) == SumOver(raster, ValidCells(sblock))

ConstTotal(sblock) == SumOver(constraints, ValidCells(sblock))

block_max(sblock) == raster_nbr(sblock) * cell_max

valid_block_total(sblock) == ConstTotal(sblock) + RasterTotal(sblock)

BlockCapacity(sblock) == block_max(sblock) - valid_block_total(sblock)

\* assert np.all(valid_const_block <= cell_max)
ConstNotOverloaded(sblock) ==
    \A p \in ValidCells(sblock) : constraints[p] <= cell_max

\* _with_invalid: the grid the invalid cells are read from.  With
\* InvalidCellsIn.raster it is raster_block itself, not a copy.
WithInvalid(g) == IF invalid_in = "constraints" THEN constraints ELSE g

\* a slip: the branch of InvalidCellsIn.none taken under every policy
JamFillUnmasked(sblock) ==
    [p \in DOMAIN raster |->
        IF p \in CellsOf(sblock) THEN cell_max - constraints[p] ELSE raster[p]]

\* the jammed block: raster_block = cell_max - const_block on the valid cells
JamFill(sblock) ==
    [p \in DOMAIN raster |->
        IF p \in CellsOf(sblock)
           /\ (invalid_in = "none" \/ WithInvalid(raster)[p] # invalid_value)
        THEN cell_max - constraints[p]
        ELSE raster[p]]

\* wipe the form clean: 0 in the valid cells, invalid_value in the others
WipeClean(sblock) ==
    [p \in DOMAIN raster |->
        IF p \in CellsOf(sblock)
        THEN IF invalid_in = "none" \/ WithInvalid(raster)[p] # invalid_value
             THEN 0 ELSE invalid_value
        ELSE raster[p]]

----------------------------------------------------------------------------
(* imprint_constraints: the report. *)

\* a slip: a block that is exactly full counted as jammed
IsJammedOrFull(capacity) == capacity <= 0

IsJammed(capacity) == capacity < 0

\* a slip: the index of a processed block appended to the failed list
ReportedFailed(report, k, capacity) ==
    IF capacity # None
    THEN IF IsJammed(capacity[1])
         THEN [report EXCEPT !.jammed = Append(@, k)]
         ELSE [report EXCEPT !.failed = Append(@, k)]
    ELSE [report EXCEPT !.ignored = Append(@, k)]

\* the else branch of the try in imprint_constraints
Reported(report, k, capacity) ==
    IF capacity # None
    THEN IF IsJammed(capacity[1])
         THEN [report EXCEPT !.jammed = Append(@, k)]
         ELSE [report EXCEPT !.ok = Append(@, k)]
    ELSE [report EXCEPT !.ignored = Append(@, k)]

Recorded(caps, k, capacity) ==
    IF capacity # None
    THEN [j \in DOMAIN caps \cup {k} |-> IF j = k THEN capacity[1] ELSE caps[j]]
    ELSE caps

\* the region under work: bblock of enumerate(bblocks)
bblock == bblocks[i + 1]

\* the fraction_inlay locals outside the fill loop
NoLocals ==
    /\ invalid_mask' = {}
    /\ raster_total' = 0
    /\ _data_total_initial' = 0
    /\ block_capacity' = 0
    /\ _raster_block_orig' = None

\* inlay returned _capacity without raising: record it, go to the next region
NextRegion(capacity) ==
    /\ block_report' = Reported(block_report, i, capacity)
    /\ capacities' = Recorded(capacities, i, capacity)
    /\ _capacity' = capacity
    /\ i' = i + 1
    /\ pc' = "loop"
    /\ err' = err

Raise(e) ==
    /\ pc' = "raised"
    /\ err' = e
    /\ UNCHANGED <<i, block_report, capacities, _capacity>>

params == <<constraints, bblocks, cell_unit, cell_max, invalid_in, invalid_value,
            blocks_vars>>

----------------------------------------------------------------------------
(* The steps of one region. *)

\* no valid cells: return raster_block, None
InlayIgnored ==
    /\ pc = "loop" /\ i < Len(bblocks)
    /\ raster_nbr(bblock) = 0
    /\ raster_pre' = raster
    /\ raster' = raster
    /\ NoLocals
    /\ NextRegion(None)
    /\ UNCHANGED params

\* the assertion on the constraints block fails; nothing catches it
InlayConstOverloaded ==
    /\ pc = "loop" /\ i < Len(bblocks)
    /\ raster_nbr(bblock) # 0
    /\ ~ConstNotOverloaded(bblock)
    /\ raster_pre' = raster
    /\ raster' = raster
    /\ NoLocals
    /\ Raise("AssertionError")
    /\ UNCHANGED params

\* valid_block_total > block_max: the block is set directly and returned
InlayJammed ==
    /\ pc = "loop" /\ i < Len(bblocks)
    /\ raster_nbr(bblock) # 0
    /\ ConstNotOverloaded(bblock)
    /\ valid_block_total(bblock) > block_max(bblock)
    /\ raster_pre' = raster
    /\ raster' = JamFill(bblock)
    /\ NoLocals
    /\ NextRegion(<<BlockCapacity(bblock)>>)
    /\ UNCHANGED params

\* the block can be redistributed: wipe it and enter the fill loop
InlayWipe ==
    /\ pc = "loop" /\ i < Len(bblocks)
    /\ raster_nbr(bblock) # 0
    /\ ConstNotOverloaded(bblock)
    /\ ~(valid_block_total(bblock) > block_max(bblock))
    /\ raster_pre' = raster
    /\ invalid_mask' = IF invalid_in = "none" THEN {} ELSE ValidCells(bblock)
    /\ raster_total' = RasterTotal(bblock)
    /\ _data_total_initial' = RasterTotal(bblock)
    /\ block_capacity' = BlockCapacity(bblock)
    /\ _raster_block_orig' =
            IF invalid_in = "none" THEN None
            ELSE [p \in CellsOf(bblock) |-> raster[p]]
    /\ raster' = WipeClean(bblock)
    /\ pc' = "fill"
    /\ UNCHANGED <<i, block_report, capacities, _capacity, err>>
    /\ UNCHANGED params

\* a slip: np.argmax for np.argmin
max_ind(sblock) ==
    CHOOSE p \in CellsOf(sblock) :
        \A q \in CellsOf(sblock) :
            \/ raster[p] + constraints[p] > raster[q] + constraints[q]
            \/ /\ raster[p] + constraints[p] = raster[q] + constraints[q]
               /\ FlatIndex(sblock, p) <= FlatIndex(sblock, q)

\* np.unravel_index(np.argmin(raster_block + const_block, axis=None), shape):
\* the first cell, in row-major order, of the smallest sum
min_ind(sblock) ==
    CHOOSE p \in CellsOf(sblock) :
        \A q \in CellsOf(sblock) :
            \/ raster[p] + constraints[p] < raster[q] + constraints[q]
            \/ /\ raster[p] + constraints[p] = raster[q] + constraints[q]
               /\ FlatIndex(sblock, p) <= FlatIndex(sblock, q)

\* one pass of `while raster_total:`
FillIncrement ==
    /\ pc = "fill"
    /\ raster_total # 0
    /\ LET m == min_ind(bblock)
       IN /\ raster' = [raster EXCEPT ![m] = @ + cell_unit]
          /\ IF raster[m] + cell_unit <= cell_max
             THEN /\ raster_total' = raster_total - cell_unit
                  /\ pc' = "fill"
                  /\ err' = err
             ELSE /\ raster_total' = raster_total
                  /\ pc' = "raised"
                  /\ err' = "AssertionError"
    /\ UNCHANGED <<i, block_report, capacities, _capacity, raster_pre,
                   invalid_mask, _data_total_initial, block_capacity, _raster_block_orig>>
    /\ UNCHANGED params

\* a slip: the block is returned as the fill loop left it
Unrestored(sblock) == raster

\* the invalid cells get their original values back
Restored(sblock) ==
    [p \in DOMAIN raster |->
        IF p \in CellsOf(sblock) /\ invalid_in # "none"
        THEN IF WithInvalid(raster)[p] # invalid_value
             THEN raster[p] ELSE _raster_block_orig[p]
        ELSE raster[p]]

\* the loop is left: restore the invalid cells, check that nothing got lost,
\* return to inlay and from there to imprint_constraints
FillReturn ==
    /\ pc = "fill"
    /\ raster_total = 0
    /\ raster' = Restored(bblock)
    /\ raster_pre' = raster_pre
    /\ IF block_capacity >= 0 /\ invalid_in = "none"
       THEN \* raster_block[invalid_mask]: invalid_mask was never assigned
            /\ Raise("UnboundLocalError")
            /\ UNCHANGED <<invalid_mask, raster_total, _data_total_initial,
                           block_capacity, _raster_block_orig>>
       ELSE IF block_capacity >= 0
               /\ _data_total_initial # SumOver(Restored(bblock), invalid_mask)
       THEN /\ Raise("AssertionError")
            /\ UNCHANGED <<invalid_mask, raster_total, _data_total_initial,
                           block_capacity, _raster_block_orig>>
       ELSE /\ NextRegion(<<block_capacity>>)
            /\ NoLocals
    /\ UNCHANGED params

\* the for loop is exhausted: return block_report, capacities
ImprintReturn ==
    /\ pc = "loop" /\ i = Len(bblocks)
    /\ pc' = "returned"
    /\ UNCHANGED <<raster, i, block_report, capacities, _capacity, err,
                   raster_pre,
                   invalid_mask, raster_total, _data_total_initial,
                   block_capacity, _raster_block_orig>>
    /\ UNCHANGED params

----------------------------------------------------------------------------
(* The runs of imprint_constraints. *)

\* a value no valid cell holds, bigger than cell_max (the note in the fill
\* loop: "this only works as long as invalid value is bigger than cell_max")
InvalidValue == MaxRaster + MaxConst + MaxCellMax + 1

GridCells == { <<0, c>> : c \in 0 .. (GridW - 1) }

\* a block of the one-row grid: columns a .. b - 1
Region(a, b) == <<slice(0, 1), slice(a, b)>>

\* the ordered collections of regions
BlockLists ==
    { <<Region(0, GridW), Region(0, 1)>>,
      <<Region(0, 1), Region(1, GridW)>>,
      <<Region(1, GridW)>> }

RasterValues(policy) ==
    IF policy = "raster" THEN (0 .. MaxRaster) \cup {InvalidValue}
    ELSE 0 .. MaxRaster

ConstValues(policy) ==
    IF policy = "constraints" THEN (0 .. MaxConst) \cup {InvalidValue}
    ELSE 0 .. MaxConst

Init ==
    /\ invalid_in \in {"none", "raster", "constraints"}
    /\ invalid_value = InvalidValue
    /\ cell_max \in 1 .. MaxCellMax
    /\ cell_unit \in 1 .. MaxUnit
    /\ raster \in [GridCells -> RasterValues(invalid_in)]
    /\ constraints \in [GridCells -> ConstValues(invalid_in)]
    /\ bblocks \in BlockLists
    /\ i = 0
    /\ block_report = [ok |-> <<>>, jammed |-> <<>>, ignored |-> <<>>,
                       failed |-> <<>>]
    /\ capacities = <<>>
    /\ _capacity = None
    /\ pc = "loop"
    /\ err = "none"
    /\ raster_pre = raster
    /\ invalid_mask = {}
    /\ raster_total = 0
    /\ _data_total_initial = 0
    /\ block_capacity = 0
    /\ _raster_block_orig = None
    /\ block_shape = <<1, 1>>
    /\ outvalue = 0
    /\ counts = <<>>
    /\ blocks = <<>>
    /\ _blocks = <<>>
    /\ multiblocks = <<>>
    /\ overloaded = <<>>
    /\ tol = 1
    /\ _last_adding = <<>>
    /\ pos = 0

Next ==
    \/ InlayIgnored
    \/ InlayConstOverloaded
    \/ InlayJammed
    \/ InlayWipe
    \/ FillIncrement
    \/ FillReturn
    \/ ImprintReturn

Spec == Init /\ [][Next]_vars

\* the runs with every invalid_value the note in the fill loop admits: the
\* values bigger than cell_max
InitFill ==
    /\ invalid_in \in {"none", "raster", "constraints"}
    /\ cell_max \in 1 .. MaxCellMax
    /\ invalid_value \in (cell_max + 1) .. InvalidValue
    /\ cell_unit \in 1 .. MaxUnit
    /\ raster \in [GridCells ->
                     IF invalid_in = "raster"
                     THEN (0 .. MaxRaster) \cup {invalid_value}
                     ELSE 0 .. MaxRaster]
    /\ constraints \in [GridCells ->
                          IF invalid_in = "constraints"
                          THEN (0 .. MaxConst) \cup {invalid_value}
                          ELSE 0 .. MaxConst]
    /\ bblocks \in BlockLists
    /\ i = 0
    /\ block_report = [ok |-> <<>>, jammed |-> <<>>, ignored |-> <<>>,
                       failed |-> <<>>]
    /\ capacities = <<>>
    /\ _capacity = None
    /\ pc = "loop"
    /\ err = "none"
    /\ raster_pre = raster
    /\ invalid_mask = {}
    /\ raster_total = 0
    /\ _data_total_initial = 0
    /\ block_capacity = 0
    /\ _raster_block_orig = None
    /\ block_shape = <<1, 1>>
    /\ outvalue = 0
    /\ counts = <<>>
    /\ blocks = <<>>
    /\ _blocks = <<>>
    /\ multiblocks = <<>>
    /\ overloaded = <<>>
    /\ tol = 1
    /\ _last_adding = <<>>
    /\ pos = 0

SpecFill == InitFill /\ [][Next]_vars

----------------------------------------------------------------------------
(* rasterinlay/blocks.py: grids and lists. *)

\* the counts matrix is a numpy array of dtype uint8
CountsMod == 256

\* tolerance=1, the default of separate_superblocks and split_overloaded and
\* the value find_blocks passes to breakdown_multiblocks
DefaultTolerance == 1

\* outvalue=0, the default of breakdown_overloadeds, which find_blocks calls
\* without an outvalue
DefaultOutvalue == 0

\* raster.shape of a grid with its origin at <<0, 0>>
Height(g) == CHOOSE n \in 1 .. Cardinality(DOMAIN g) : <<n, 0>> \notin DOMAIN g

Width(g) == CHOOSE n \in 1 .. Cardinality(DOMAIN g) : <<0, n>> \notin DOMAIN g

\* an operation that returned value v / that raised an exception
Returned(v) == [raised |-> FALSE, value |-> v, error |-> "none"]

IndexError == [raised |-> TRUE, value |-> <<>>, error |-> "IndexError"]

AssertionError == [raised |-> TRUE, value |-> <<>>, error |-> "AssertionError"]

\* grid[sblock] as a grid of its own, with its origin at <<0, 0>>
View(g, sblock) ==
    [p \in { <<r, c>> : r \in 0 .. (sblock[1].stop - sblock[1].start - 1),
                         c \in 0 .. (sblock[2].stop - sblock[2].start - 1) }
        |-> g[<<p[1] + sblock[1].start, p[2] + sblock[2].start>>]]

RECURSIVE RowMajor(_)
\* the cells S in the order np.where lists them
RowMajor(S) ==
    IF S = {} THEN <<>>
    ELSE LET p == CHOOSE q \in S :
                    \A o \in S : q[1] < o[1] \/ (q[1] = o[1] /\ q[2] <= o[2])
         IN <<p>> \o RowMajor(S \ {p})

RECURSIVE Flatten(_)
\* the lists of ss, one after the other
Flatten(ss) == IF ss = <<>> THEN <<>> ELSE Head(ss) \o Flatten(Tail(ss))

MaxOver(g, S) == CHOOSE m \in { g[p] : p \in S } : \A p \in S : g[p] <= m

MinOf(S) == CHOOSE m \in S : \A n \in S : m <= n

----------------------------------------------------------------------------
(* get_counts *)

\* np.where(cell != outvalue, _1, _0)
Adding(g, out, p) == IF g[p] # out THEN 1 ELSE 0

RECURSIVE RowCount(_, _, _, _)
\* counts[r, c] after the loop along the x axis
RowCount(g, out, r, c) ==
    IF c = 0 THEN Adding(g, out, <<r, 0>>)
    ELSE ((IF g[<<r, c>>] = g[<<r, c - 1>>] THEN 1 ELSE 0)
              * RowCount(g, out, r, c - 1)
            + Adding(g, out, <<r, c>>)) % CountsMod

RECURSIVE LastAdding(_, _, _, _)
\* _last_adding[c] when the loop along the y axis has done row r, and, for
\* r >= 1, what that pass added to counts[r, c]
ColAdded(g, out, r, c) ==
    (LastAdding(g, out, r - 1, c)
        * (IF g[<<r, c>>] = g[<<r - 1, c>>] THEN 1 ELSE 0)) % CountsMod

LastAdding(g, out, r, c) ==
    IF r = 0 THEN Adding(g, out, <<0, c>>)
    ELSE (ColAdded(g, out, r, c) + Adding(g, out, <<r, c>>)) % CountsMod

get_counts(g, out) ==
    [p \in DOMAIN g |->
        IF p[1] = 0 THEN RowCount(g, out, p[1], p[2])
        ELSE (RowCount(g, out, p[1], p[2]) + ColAdded(g, out, p[1], p[2]))
                % CountsMod]

----------------------------------------------------------------------------
(* get_superblocks *)

get_block(start, shape) ==
    <<slice(start[1], start[1] + shape[1]), slice(start[2], start[2] + shape[2])>>

offset_block(sblock, offset) ==
    <<slice(sblock[1].start + offset[1], sblock[1].stop + offset[1]),
      slice(sblock[2].start + offset[2], sblock[2].stop + offset[2])>>

_superblock_starts(inside_counts) ==
    RowMajor({ p \in DOMAIN inside_counts : inside_counts[p] = 1 })

RECURSIVE GrowWidth(_, _, _, _, _)
\* the first while loop of _superblock_shapes: _w, or -1 when the probe
\* counts[rs, cs + _w + 1] is outside the grid (IndexError)
GrowWidth(g, cnt, rs, cs, w) ==
    IF cs + w + 1 >= Width(g) THEN -1
    ELSE IF cnt[<<rs, cs + w + 1>>] > cnt[<<rs, cs + w>>]
            /\ g[<<rs, cs + w + 1>>] = g[<<rs, cs>>]
    THEN IF cs + (w + 1) + 1 = Width(g) THEN w + 1
         ELSE GrowWidth(g, cnt, rs, cs, w + 1)
    ELSE w

RECURSIVE GrowHeight(_, _, _, _, _)
\* the second while loop of _superblock_shapes
GrowHeight(g, cnt, rs, cs, h) ==
    IF rs + h + 1 >= Height(g) THEN -1
    ELSE IF cnt[<<rs + h + 1, cs>>] > cnt[<<rs + h, cs>>]
            /\ g[<<rs + h + 1, cs>>] = g[<<rs, cs>>]
    THEN IF rs + (h + 1) + 1 = Height(g) THEN h + 1
         ELSE GrowHeight(g, cnt, rs, cs, h + 1)
    ELSE h

\* the shapes of the super-blocks at starts, or IndexError
_superblock_shapes(g, cnt, starts) ==
    LET w(k) == GrowWidth(g, cnt, starts[k][1], starts[k][2], 0)
        h(k) == GrowHeight(g, cnt, starts[k][1], starts[k][2], 0)
    IN IF \E k \in DOMAIN starts : w(k) = -1 \/ h(k) = -1
       THEN IndexError
       ELSE Returned([k \in DOMAIN starts |-> <<h(k) + 1, w(k) + 1>>])

get_superblocks(g, cnt) ==
    LET starts == _superblock_starts(cnt)
        shapes == _superblock_shapes(g, cnt, starts)
    IN IF shapes.raised THEN IndexError
       ELSE Returned([k \in DOMAIN starts |->
                        get_block(starts[k], shapes.value[k])])

----------------------------------------------------------------------------
(* _classify_block, separate_superblocks *)

ok_max(shape, tolerance) == shape[1] + shape[2] + 2 * tolerance

\* a classification by the counts alone
ClassifyByCounts(uniques, cnt, sblock, okmax) ==
    IF MaxOver(cnt, CellsOf(sblock)) <= okmax THEN 0 ELSE 1

\* 0: a block, 1: a multi-block, 2: an overloaded block
_classify_block(uniques, cnt, sblock, okmax) ==
    IF Cardinality(uniques) > 1 THEN 2
    ELSE IF MaxOver(cnt, CellsOf(sblock)) <= okmax THEN 0
    ELSE 1

\* the three lists: blocks, multi-blocks, overloaded blocks
separate_superblocks(g, cnt, superblocks, shape, tolerance) ==
    LET class(sb) == _classify_block(Uniques(g, CellsOf(sb)), cnt, sb,
                                     ok_max(shape, tolerance))
        is0(sb) == class(sb) = 0
        is1(sb) == class(sb) = 1
        is2(sb) == class(sb) = 2
    IN <<SelectSeq(superblocks, is0), SelectSeq(superblocks, is1),
         SelectSeq(superblocks, is2)>>

----------------------------------------------------------------------------
(* split_multiblock, breakdown_multiblocks *)

\* nbr_vertic_dev (nbr_horiz_dev): how many blocks are slightly off
nbr_dev(residue, tolerance) ==
    (residue - (residue % tolerance)) \div tolerance

\* a slip: the whole residue goes to the last block
LengthsResidueLast(length, target, tolerance) ==
    LET residue == length % target
        mult == (length - residue) \div target
    IN IF residue > 0 /\ mult = 0 THEN IndexError
       ELSE Returned([k \in 1 .. mult |->
                        IF k = mult THEN target + residue ELSE target])

\* a slip: the residue is dropped, all blocks have the target length
LengthsOfTarget(length, target, tolerance) ==
    Returned([k \in 1 .. ((length - (length % target)) \div target) |-> target])

\* block_heights (block_widths): mult blocks of the target length, the last
\* residue of them one longer; more residue than blocks is an IndexError
Lengths(length, target, tolerance) ==
    LET residue == length % target
        mult == (length - residue) \div target
    IN IF residue # 0 /\ ~(nbr_dev(residue, tolerance) * tolerance <= residue)
       THEN AssertionError
       ELSE IF residue > mult THEN IndexError
       ELSE Returned([k \in 1 .. mult |->
                        IF k > mult - residue THEN target + 1 ELSE target])

RECURSIVE Before(_, _)
\* the sum of the first k lengths
Before(lengths, k) == IF k = 0 THEN 0 ELSE lengths[k] + Before(lengths, k - 1)

split_multiblock(sblock, shape, tolerance) ==
    LET hs == Lengths(sblock[1].stop - sblock[1].start, shape[1], tolerance)
        ws == Lengths(sblock[2].stop - sblock[2].start, shape[2], tolerance)
        cell(v, h) ==
            <<slice(sblock[1].start + Before(hs.value, v - 1),
                    sblock[1].start + Before(hs.value, v)),
              slice(sblock[2].start + Before(ws.value, h - 1),
                    sblock[2].start + Before(ws.value, h))>>
    IN IF hs.raised THEN hs
       ELSE IF ws.raised THEN ws
       ELSE Returned(Flatten([v \in 1 .. Len(hs.value) |->
                                [h \in 1 .. Len(ws.value) |-> cell(v, h)]]))

breakdown_multiblocks(mbs, shape, tolerance) ==
    LET parts == [k \in DOMAIN mbs |-> split_multiblock(mbs[k], shape, tolerance)]
    IN IF \E k \in DOMAIN mbs : parts[k].raised
       THEN parts[MinOf({ k \in DOMAIN mbs : parts[k].raised })]
       ELSE Returned(Flatten([k \in DOMAIN mbs |-> parts[k].value]))

----------------------------------------------------------------------------
(* split_overloaded, breakdown_overloadeds *)

split_overloaded(g, ob, shape, out, tolerance) ==
    LET _block_raster == View(g, ob)
        value == _block_raster[<<0, 0>>]
        _counts == get_counts(_block_raster, value)
        _starts == _superblock_starts(_counts)
        _shapes == _superblock_shapes(_block_raster, _counts, _starts)
        _inner_blocks == [k \in DOMAIN _starts |->
                            get_block(_starts[k], _shapes.value[k])]
        upper_height == MinOf({ _starts[k][1] : k \in DOMAIN _starts })
        left_width == MinOf({ _starts[k][2] : k \in DOMAIN _starts })
        top == <<slice(ob[1].start, ob[1].start + upper_height), ob[2]>>
        left == <<slice(ob[1].start + upper_height, ob[1].stop),
                  slice(ob[2].start, ob[2].start + left_width)>>
        kept(b) == _block_raster[<<b[1].start, b[2].start>>] # out
        orig(b) == offset_block(b, <<ob[1].start, ob[2].start>>)
        class(b) == _classify_block(Uniques(g, CellsOf(orig(b))), _counts, b,
                                    ok_max(shape, tolerance))
        is0(b) == kept(b) /\ class(b) = 0
        is1(b) == kept(b) /\ class(b) = 1
        is2(b) == kept(b) /\ class(b) = 2
        at(bs) == [k \in DOMAIN bs |-> orig(bs[k])]
    IN IF _shapes.raised THEN IndexError
       ELSE Returned(<<at(SelectSeq(_inner_blocks, is0)),
                       <<top, left>> \o at(SelectSeq(_inner_blocks, is1)),
                       at(SelectSeq(_inner_blocks, is2))>>)

breakdown_overloadeds(g, overloadeds, shape, out, tolerance) ==
    LET parts == [k \in DOMAIN overloadeds |->
                    split_overloaded(g, overloadeds[k], shape, out, tolerance)]
        all(j) == Flatten([k \in DOMAIN overloadeds |-> parts[k].value[j]])
    IN IF \E k \in DOMAIN overloadeds : parts[k].raised
       THEN parts[MinOf({ k \in DOMAIN overloadeds : parts[k].raised })]
       ELSE Returned(<<all(1), all(2), all(3)>>)

----------------------------------------------------------------------------
(* find_blocks *)

\* set smallest non-zero counts to 1
Normalised(cnt) ==
    LET min_count == MinOf({ cnt[p] : p \in { q \in DOMAIN cnt : cnt[q] # 0 } })
    IN [p \in DOMAIN cnt |->
          IF cnt[p] # 0 THEN (cnt[p] - (min_count - 1)) % CountsMod ELSE 0]

\* remove the counts within all blocks
Removed(cnt, bs) ==
    [p \in DOMAIN cnt |->
        IF \E k \in DOMAIN bs : p \in CellsOf(bs[k]) THEN 0 ELSE cnt[p]]

inlay_idle == <<constraints, bblocks, cell_unit, cell_max, invalid_in,
                invalid_value, i, block_report, capacities, _capacity,
                raster_pre, invalid_mask, raster_total, _data_total_initial,
                block_capacity, _raster_block_orig>>

\* the locals of split_multiblock and get_counts called on their own
calls_idle == <<tol, _last_adding, pos>>

FindRaise(e) ==
    /\ pc' = "raised"
    /\ err' = e

\* the head of the while loop of find_blocks and the pass up to the loop
\* over the overloaded blocks
FindScan ==
    /\ pc = "scanning"
    /\ { p \in DOMAIN counts : counts[p] # 0 } # {}
    /\ \E cnt \in {Normalised(counts)} :
         \E superblocks \in {get_superblocks(raster, cnt)} :
           /\ counts' = cnt
           /\ IF superblocks.raised
              THEN /\ FindRaise(superblocks.error)
                   /\ UNCHANGED <<_blocks, multiblocks, overloaded>>
              ELSE \E lists \in {separate_superblocks(raster, cnt,
                                     superblocks.value, block_shape,
                                     DefaultTolerance)} :
                     /\ _blocks' = lists[1] \o lists[1]
                     /\ multiblocks' = lists[2]
                     /\ overloaded' = lists[3]
                     /\ pc' = "resolving"
                     /\ err' = err
    /\ UNCHANGED <<raster, block_shape, outvalue, blocks>>
    /\ UNCHANGED <<inlay_idle, calls_idle>>

\* one pass of `while overloaded:`
FindResolve ==
    /\ pc = "resolving"
    /\ overloaded # <<>>
    /\ \E got \in {breakdown_overloadeds(raster, overloaded, block_shape,
                                         DefaultOutvalue, DefaultTolerance)} :
          IF got.raised
          THEN /\ FindRaise(got.error)
               /\ UNCHANGED <<_blocks, multiblocks, overloaded>>
          ELSE /\ _blocks' = _blocks \o got.value[1]
               /\ multiblocks' = multiblocks \o got.value[2]
               /\ overloaded' = got.value[3]
               /\ pc' = "resolving"
               /\ err' = err
    /\ UNCHANGED <<raster, block_shape, outvalue, counts, blocks>>
    /\ UNCHANGED <<inlay_idle, calls_idle>>

\* the rest of the pass: break down the multi-blocks, remove the counts,
\* extend the list
FindCommit ==
    /\ pc = "resolving"
    /\ overloaded = <<>>
    /\ \E got \in {breakdown_multiblocks(multiblocks, block_shape,
                                         DefaultTolerance)} :
          IF got.raised
          THEN /\ FindRaise(got.error)
               /\ UNCHANGED <<counts, blocks, _blocks, multiblocks>>
          ELSE /\ counts' = Removed(counts, _blocks \o got.value)
               /\ blocks' = blocks \o (_blocks \o got.value)
               /\ _blocks' = <<>>
               /\ multiblocks' = <<>>
               /\ pc' = "scanning"
               /\ err' = err
    /\ UNCHANGED <<raster, block_shape, outvalue, overloaded>>
    /\ UNCHANGED <<inlay_idle, calls_idle>>

\* np.any(counts) is false: return blocks
FindReturn ==
    /\ pc = "scanning"
    /\ \A p \in DOMAIN counts : counts[p] = 0
    /\ pc' = "found"
    /\ UNCHANGED <<raster, err, blocks_vars>>
    /\ UNCHANGED inlay_idle

----------------------------------------------------------------------------
(* The runs of find_blocks. *)

\* the free part of a raster with a margin is RasterH x RasterW cells of the
\* values 0 .. MaxValue; a raster without a margin is BareDim x BareDim
RasterH == 3
RasterW == 3
BareDim == 2
MaxValue == 2
\* block_shape is drawn from (1 .. MaxBlockDim) x (1 .. MaxBlockDim)
MaxBlockDim == 2

RasterCells == (0 .. (RasterH - 1)) \X (0 .. (RasterW - 1))

BareCells == (0 .. (BareDim - 1)) \X (0 .. (BareDim - 1))

\* g with one more row and one more column, both of the sentinel value
Margined(g, out) ==
    [p \in (0 .. RasterH) \X (0 .. RasterW) |->
        IF p \in DOMAIN g THEN g[p] ELSE out]

OutValues == {DefaultOutvalue}

Rasters(out) ==
    { Margined(g, out) : g \in [RasterCells -> 0 .. MaxValue] }
        \cup [BareCells -> 0 .. MaxValue]

InitBlocks ==
    /\ outvalue \in OutValues
    /\ raster \in Rasters(outvalue)
    /\ block_shape \in (1 .. MaxBlockDim) \X (1 .. MaxBlockDim)
    /\ counts = get_counts(raster, outvalue)
    /\ blocks = <<>>
    /\ _blocks = <<>>
    /\ multiblocks = <<>>
    /\ overloaded = <<>>
    /\ tol = DefaultTolerance
    /\ _last_adding = <<>>
    /\ pos = 0
    /\ pc = "scanning"
    /\ err = "none"
    /\ constraints = <<>>
    /\ bblocks = <<>>
    /\ cell_unit = 1
    /\ cell_max = 1
    /\ invalid_in = "none"
    /\ invalid_value = 0
    /\ i = 0
    /\ block_report = <<>>
    /\ capacities = <<>>
    /\ _capacity = None
    /\ raster_pre = <<>>
    /\ invalid_mask = {}
    /\ raster_total = 0
    /\ _data_total_initial = 0
    /\ block_capacity = 0
    /\ _raster_block_orig = None

NextBlocks ==
    \/ FindScan
    \/ FindResolve
    \/ FindCommit
    \/ FindReturn

SpecBlocks == InitBlocks /\ [][NextBlocks]_vars

\* the calls of find_blocks with a sentinel value other than the default
OtherOutValues == (0 .. MaxValue) \ {DefaultOutvalue}

InitSentinel ==
    /\ outvalue \in OtherOutValues
    /\ raster \in Rasters(outvalue)
    /\ block_shape \in (1 .. MaxBlockDim) \X (1 .. MaxBlockDim)
    /\ counts = get_counts(raster, outvalue)
    /\ blocks = <<>>
    /\ _blocks = <<>>
    /\ multiblocks = <<>>
    /\ overloaded = <<>>
    /\ tol = DefaultTolerance
    /\ _last_adding = <<>>
    /\ pos = 0
    /\ pc = "scanning"
    /\ err = "none"
    /\ constraints = <<>>
    /\ bblocks = <<>>
    /\ cell_unit = 1
    /\ cell_max = 1
    /\ invalid_in = "none"
    /\ invalid_value = 0
    /\ i = 0
    /\ block_report = <<>>
    /\ capacities = <<>>
    /\ _capacity = None
    /\ raster_pre = <<>>
    /\ invalid_mask = {}
    /\ raster_total = 0
    /\ _data_total_initial = 0
    /\ block_capacity = 0
    /\ _raster_block_orig = None

SpecSentinel == InitSentinel /\ [][NextBlocks]_vars

----------------------------------------------------------------------------
(* The calls of split_multiblock on its own. *)

\* the rectangle starts at (0 .. MaxStart) x (0 .. MaxStart) and has sides of
\* 0 .. MaxSide cells; the target shape is drawn from (1 .. MaxTarget) x
\* (1 .. MaxTarget) and the tolerance from 1 .. MaxTolerance
MaxStart == 1
MaxSide == 5
MaxTarget == 3
MaxTolerance == 2

\* the rectangle handed to split_multiblock
multiblock == multiblocks[1]

\* split_multiblock(sblock, block_shape, tolerance): the list it returns, or
\* the exception it raises
SplitCall ==
    /\ pc = "splitting"
    /\ \E got \in {split_multiblock(multiblock, block_shape, tol)} :
          IF got.raised
          THEN /\ FindRaise(got.error)
               /\ UNCHANGED _blocks
          ELSE /\ _blocks' = got.value
               /\ pc' = "split"
               /\ err' = err
    /\ UNCHANGED <<raster, block_shape, outvalue, counts, blocks, multiblocks,
                   overloaded>>
    /\ UNCHANGED <<inlay_idle, calls_idle>>

InitSplit ==
    /\ multiblocks \in
          { <<get_block(start, shape)>> :
                start \in (0 .. MaxStart) \X (0 .. MaxStart),
                shape \in (0 .. MaxSide) \X (0 .. MaxSide) }
    /\ block_shape \in (1 .. MaxTarget) \X (1 .. MaxTarget)
    /\ tol \in 1 .. MaxTolerance
    /\ _blocks = <<>>
    /\ pc = "splitting"
    /\ err = "none"
    /\ raster = <<>>
    /\ outvalue = DefaultOutvalue
    /\ counts = <<>>
    /\ blocks = <<>>
    /\ overloaded = <<>>
    /\ _last_adding = <<>>
    /\ pos = 0
    /\ constraints = <<>>
    /\ bblocks = <<>>
    /\ cell_unit = 1
    /\ cell_max = 1
    /\ invalid_in = "none"
    /\ invalid_value = 0
    /\ i = 0
    /\ block_report = <<>>
    /\ capacities = <<>>
    /\ _capacity = None
    /\ raster_pre = <<>>
    /\ invalid_mask = {}
    /\ raster_total = 0
    /\ _data_total_initial = 0
    /\ block_capacity = 0
    /\ _raster_block_orig = None

NextSplit == SplitCall

SpecSplit == InitSplit /\ [][NextSplit]_vars

----------------------------------------------------------------------------
(* What the claims about the redistribution speak of. *)

InList(k, s) == \E j \in DOMAIN s : s[j] = k

\* a region's call has ended without raising: it is region i - 1
Completed == pc \in {"loop", "returned"} /\ i > 0

LastIndex == i - 1

LastBlock == bblocks[i]

\* the cells of a block that were valid when fraction_inlay was called
ValidBefore(sblock) ==
    IF invalid_in = "constraints"
    THEN { p \in CellsOf(sblock) : constraints[p] # invalid_value }
    ELSE IF invalid_in = "raster"
    THEN { p \in CellsOf(sblock) : raster_pre[p] # invalid_value }
    ELSE CellsOf(sblock)

HasCapacity == Completed /\ LastIndex \in DOMAIN capacities

\* C1 Quantity conservation: whenever the capacity returned for a region is
\* >= 0, the raster values over the region's valid cells sum to the same
\* total after the call as before it.
QuantityConservation ==
    (HasCapacity /\ capacities[LastIndex] >= 0)
        => SumOver(raster, ValidBefore(LastBlock))
             = SumOver(raster_pre, ValidBefore(LastBlock))

\* a region with an invalid cell was redistributed: a valid cell changed
QuantityConservationWitness ==
    /\ HasCapacity /\ capacities[LastIndex] >= 0
    /\ ValidBefore(LastBlock) # CellsOf(LastBlock)
    /\ \E p \in ValidBefore(LastBlock) : raster[p] # raster_pre[p]

\* C2 Per-cell ceiling: after a call that returned a capacity, and inside the
\* fill loop after every increment, raster + constraint <= cell_max in every
\* valid cell, for every cell_unit >= 1.
PerCellCeiling ==
    /\ HasCapacity
         => \A p \in ValidBefore(LastBlock) :
                raster[p] + constraints[p] <= cell_max
    /\ pc = "fill"
         => \A p \in ValidBefore(bblock) :
                raster[p] + constraints[p] <= cell_max

\* C3 Jam correctness: when the capacity returned is < 0 every valid cell
\* holds cell_max - constraint and the region lost exactly -capacity; for
\* every processed region initial_sum = final_sum - min(0, capacity).
JamCorrectness ==
    HasCapacity =>
        LET cap == capacities[LastIndex]
            before == SumOver(raster_pre, CellsOf(LastBlock))
            after == SumOver(raster, CellsOf(LastBlock))
        IN /\ cap < 0 =>
                /\ \A p \in ValidBefore(LastBlock) :
                        raster[p] = cell_max - constraints[p]
                /\ before - after = -cap
           /\ before = after - (IF cap < 0 THEN cap ELSE 0)

\* a jammed region with an invalid cell that lost quantity
JamCorrectnessWitness ==
    /\ HasCapacity /\ capacities[LastIndex] < 0
    /\ ValidBefore(LastBlock) # CellsOf(LastBlock)
    /\ SumOver(raster_pre, CellsOf(LastBlock))
         > SumOver(raster, CellsOf(LastBlock))

IgnoredRegions ==
    (Completed /\ ValidBefore(LastBlock) = {}) =>
        /\ raster = raster_pre
        /\ _capacity = None
        /\ LastIndex \notin DOMAIN capacities
        /\ InList(LastIndex, block_report.ignored)
        /\ ~InList(LastIndex, block_report.ok)
        /\ ~InList(LastIndex, block_report.jammed)
        /\ ~InList(LastIndex, block_report.failed)

\* a region of invalid cells only, with raster values in it, was passed over
IgnoredRegionsWitness ==
    /\ Completed /\ ValidBefore(LastBlock) = {}
    /\ InList(LastIndex, block_report.ignored)
    /\ \E p \in CellsOf(LastBlock) : raster[p] > 0

MultiValued(sblock) == Cardinality(Uniques(raster_pre, ValidBefore(sblock))) > 1

BatchNeverAborts ==
    /\ pc # "raised"
    /\ pc = "returned" =>
          \A k \in 0 .. (Len(bblocks) - 1) :
              \/ InList(k, block_report.ok)
              \/ InList(k, block_report.jammed)
              \/ InList(k, block_report.ignored)
              \/ InList(k, block_report.failed)

----------------------------------------------------------------------------
(* What the claims about find_blocks speak of. *)

\* find_blocks has returned its list / has ended, by return or by exception
FindReturned == pc = "found"

FindEnded == pc = "found" \/ (pc = "raised" /\ err = "IndexError")

\* the cells of the raster that hold the sentinel value
SentinelCells == { p \in DOMAIN raster : raster[p] = outvalue }

\* the cells of the entries of the returned list
EmittedCells == UNION { CellsOf(blocks[k]) : k \in DOMAIN blocks }

\* the super-blocks of the first pass
FirstPass ==
    get_superblocks(raster, Normalised(get_counts(raster, outvalue)))

\* C5: partition completeness: for every raster and block shape find_blocks
\* returns a list, and every cell that does not hold the sentinel value lies
\* in a rectangle of that list.
PartitionCompleteness ==
    FindEnded =>
        /\ FindReturned
        /\ DOMAIN raster \ SentinelCells \subseteq EmittedCells

\* C6: no overlap: no two entries of the list returned by find_blocks share
\* a cell, so every block found in a pass is in the list exactly once.
NoOverlap ==
    FindReturned =>
        \A j, k \in DOMAIN blocks :
            j # k => CellsOf(blocks[j]) \cap CellsOf(blocks[k]) = {}

\* C7: block uniformity: every rectangle of the list returned by find_blocks
\* holds exactly one distinct raster value, whether it was found as an
\* ordinary block, came from the split of a multi-block, or is a strip or an
\* inner block of an overloaded block. The returned list is blocks, which is
\* built from the lists _blocks of the passes: the property is stated of
\* both lists at every step, and so of the list that is returned.
BlockUniformity ==
    \A k \in DOMAIN (blocks \o _blocks) :
        Cardinality(Uniques(raster, CellsOf((blocks \o _blocks)[k]))) = 1

\* a returned list for a raster whose first pass found an overloaded block
\* of two values, neither of them the sentinel: the list holds the pieces of
\* its strips and its inner block
BlockUniformityWitness ==
    /\ FindReturned
    /\ Len(blocks) >= 6
    /\ \E first \in {FirstPass} :
          /\ ~ first.raised
          /\ \E k \in DOMAIN first.value :
                \E uniques \in {Uniques(raster, CellsOf(first.value[k]))} :
                    Cardinality(uniques) > 1 /\ outvalue \notin uniques

----------------------------------------------------------------------------
(* The second round of claims about the redistribution. *)

\* the call for a region has ended, by return or by an exception
Ended == Completed \/ (pc = "raised" /\ err # "IndexError")

\* the region of that call
EndedBlock == IF pc = "raised" THEN bblocks[i + 1] ELSE bblocks[i]

\* the valid cells of a block all held the raster value v, a multiple of
\* cell_unit, and the constraint value c, with v + c <= cell_max
UniformRegion(sblock) ==
    /\ ValidBefore(sblock) # {}
    /\ \A p, q \in ValidBefore(sblock) :
          /\ raster_pre[p] = raster_pre[q]
          /\ constraints[p] = constraints[q]
    /\ \A p \in ValidBefore(sblock) :
          /\ raster_pre[p] % cell_unit = 0
          /\ raster_pre[p] + constraints[p] <= cell_max

\* C11 Uniform regions are a fixed point: when all valid cells of a region
\* hold the same raster value (a multiple of cell_unit) and the same
\* constraint value, their sum within cell_max, the call returns, every cell
\* of the region holds its original raster value and the region is listed
\* under ok.
UniformFixedPoint ==
    (Ended /\ UniformRegion(EndedBlock)) =>
        /\ Completed
        /\ \A p \in CellsOf(EndedBlock) : raster[p] = raster_pre[p]
        /\ InList(LastIndex, block_report.ok)

\* the capacity of a block by the rule of the masked policies, from the
\* values the call found
CapacityOf(sblock) ==
    cell_max * Cardinality(ValidBefore(sblock))
        - (SumOver(raster_pre, ValidBefore(sblock))
             + SumOver(constraints, ValidBefore(sblock)))

\* C15 Disabled invalid-marker policy: with invalid_in = none every cell of
\* the region is valid and the call returns the raster and the capacity by
\* the rules of the masked policies, with a capacity >= 0 as with a capacity
\* < 0 (a call that an assertion ended is left aside).
NonePolicyReturns ==
    (invalid_in = "none" /\ Ended /\ err # "AssertionError") =>
        /\ Completed
        /\ ValidBefore(EndedBlock) = CellsOf(EndedBlock)
        /\ LastIndex \in DOMAIN capacities
        /\ capacities[LastIndex] = CapacityOf(EndedBlock)

\* C18 Frame of redistribution: no step changes the constraints grid, and when
\* the call for a region ends ok, jammed or ignored, every raster cell that
\* is not a valid cell of the region (a cell outside it, an invalid cell
\* inside it) holds the value it had when the call began.
FrameOfRedistribution ==
    [][/\ constraints' = constraints
       /\ (i' = i + 1) =>
              \A p \in DOMAIN raster :
                  p \notin ValidBefore(LastBlock)' => raster'[p] = raster_pre'[p]
      ]_vars

\* a region with an invalid cell that holds a raster value of its own and a
\* cell outside it has been redistributed: a valid cell changed
FrameOfRedistributionWitness ==
    /\ HasCapacity
    /\ \E p \in CellsOf(LastBlock) \ ValidBefore(LastBlock) :
            raster_pre[p] # invalid_value
    /\ CellsOf(LastBlock) # DOMAIN raster
    /\ \E p \in ValidBefore(LastBlock) : raster[p] # raster_pre[p]

\* raster + constraint in the cell p
Load(p) == raster[p] + constraints[p]

\* C19 Greedy fill rule: every increment of the fill loop adds cell_unit to a
\* valid cell of the region whose raster + constraint is minimal among the
\* valid cells at that moment, the first such cell in row-major order; an
\* invalid cell is never chosen.
GreedyFillRule ==
    [][(pc = "fill" /\ raster_total # 0) =>
          \E m \in ValidBefore(bblock) :
              /\ raster' = [raster EXCEPT ![m] = @ + cell_unit]
              /\ \A q \in ValidBefore(bblock) :
                    \/ Load(m) < Load(q)
                    \/ /\ Load(m) = Load(q)
                       /\ FlatIndex(bblock, m) <= FlatIndex(bblock, q)
      ]_vars

\* the fill loop was left through the assertion on the incremented cell
FillAborted == pc = "raised" /\ err = "AssertionError" /\ raster_total # 0

\* C21 Fill terminates: for every region with capacity >= 0 and every
\* cell_unit > 0 the fill loop counts the remaining total down to exactly 0,
\* one cell_unit per increment, and is left there: the remaining total never
\* passes below 0 and the loop is never left through an exception, for
\* totals that are no multiple of cell_unit as for the others.
FillTerminates ==
    /\ pc = "fill" =>
          /\ raster_total >= 0
          /\ SumOver(raster, ValidBefore(bblock)) + raster_total
                = _data_total_initial
    /\ ~ FillAborted

\* C23 Even spread: after a redistribution that was not jammed, for any two
\* valid cells p and q of the region, if p holds a positive raster amount
\* then its raster + constraint, less one cell_unit, is at most that of q: the
\* loads of the cells that received quantity differ by at most one cell_unit.
EvenSpread ==
    (HasCapacity /\ capacities[LastIndex] >= 0) =>
        \A p, q \in ValidBefore(LastBlock) :
            raster[p] > 0 => Load(p) - cell_unit <= Load(q)

\* a redistribution that changed the raster, after which two cells that
\* received quantity are one cell_unit apart and a third cell, loaded by its
\* constraint, received nothing
EvenSpreadWitness ==
    /\ HasCapacity /\ capacities[LastIndex] >= 0
    /\ raster # raster_pre
    /\ \E p, q, r \in ValidBefore(LastBlock) :
          /\ raster[p] > 0 /\ raster[q] > 0 /\ raster[r] = 0
          /\ Load(p) = Load(q) + cell_unit
          /\ constraints[r] > 0

----------------------------------------------------------------------------
(* What the claims about split_multiblock speak of. *)

\* split_multiblock has returned its list
SplitReturned == pc = "split"

\* the height and the width of a block
HeightOf(b) == b[1].stop - b[1].start

WidthOf(b) == b[2].stop - b[2].start

\* C12 Split covers exactly: when split_multiblock returns, for a tolerance
\* >= 1, the rectangles of its list are pairwise disjoint, lie inside the
\* input rectangle, and their union is the whole input rectangle.
SplitCoversExactly ==
    SplitReturned =>
        /\ \A j, k \in DOMAIN _blocks :
              j # k => CellsOf(_blocks[j]) \cap CellsOf(_blocks[k]) = {}
        /\ \A k \in DOMAIN _blocks :
              /\ _blocks[k][1].start <= _blocks[k][1].stop
              /\ _blocks[k][2].start <= _blocks[k][2].stop
              /\ CellsOf(_blocks[k]) \subseteq CellsOf(multiblock)
        /\ UNION { CellsOf(_blocks[k]) : k \in DOMAIN _blocks } = CellsOf(multiblock)

\* a split with a residue in both directions: four blocks or more, the last
\* one higher and wider than the target shape
SplitCoversExactlyWitness ==
    /\ SplitReturned
    /\ Len(_blocks) >= 4
    /\ HeightOf(multiblock) % block_shape[1] # 0
    /\ WidthOf(multiblock) % block_shape[2] # 0
    /\ HeightOf(_blocks[Len(_blocks)]) = block_shape[1] + 1
    /\ WidthOf(_blocks[Len(_blocks)]) = block_shape[2] + 1


\* C13 Shape-tolerance bound: every rectangle split_multiblock returns for
\* the target shape (h, w) and the tolerance t has a height in [h, h + t] and
\* a width in [w, w + t]; the blocks find_blocks gets from a multi-block or
\* from a strip of an overloaded block are such rectangles.
SplitWithinTolerance ==
    SplitReturned =>
        \A k \in DOMAIN _blocks :
            /\ HeightOf(_blocks[k]) \in block_shape[1] .. (block_shape[1] + tol)
            /\ WidthOf(_blocks[k]) \in block_shape[2] .. (block_shape[2] + tol)

\* a split whose last block is off the target shape in both directions while
\* its first block has the target shape
SplitWithinToleranceWitness ==
    /\ SplitReturned
    /\ Len(_blocks) >= 2
    /\ HeightOf(_blocks[1]) = block_shape[1]
    /\ WidthOf(_blocks[1]) = block_shape[2]
    /\ HeightOf(_blocks[Len(_blocks)]) > block_shape[1]
    /\ WidthOf(_blocks[Len(_blocks)]) > block_shape[2]

\* the residue of length modulo target is more than tol per block of the
\* target length can take up
Undistributable(length, target) ==
    (length % target) > ((length - (length % target)) \div target) * tol

\* C20 Invalid split is flagged: when the residue of the rectangle's height
\* or width cannot be distributed over the blocks of that direction within
\* the tolerance per block (a rectangle smaller than the target included),
\* split_multiblock ends in its assertion and returns no list.
InvalidSplitFlagged ==
    (/\ pc # "splitting"
     /\ \/ Undistributable(HeightOf(multiblock), block_shape[1])
        \/ Undistributable(WidthOf(multiblock), block_shape[2]))
        => (pc = "raised" /\ err = "AssertionError")


----------------------------------------------------------------------------
(* The second round of claims about find_blocks. *)

\* the cells whose count is not zero
NonZero(cnt) == { p \in DOMAIN cnt : cnt[p] # 0 }

\* C14 Partition termination: for every raster the main loop of find_blocks
\* ends, by the return of the list, with the counts matrix entirely zero.
PartitionTermination ==
    FindEnded => (FindReturned /\ NonZero(counts) = {})


----------------------------------------------------------------------------
(* What the claims about the locator of the super-blocks speak of. *)

\* the locator ends without reading outside the grid g and every rectangle
\* it yields lies inside g
LocatesInside(g, cnt) ==
    LET starts == _superblock_starts(cnt)
        shapes == _superblock_shapes(g, cnt, starts)
    IN /\ ~ shapes.raised
       /\ \A k \in DOMAIN starts :
            CellsOf(get_block(starts[k], shapes.value[k])) \subseteq DOMAIN g

\* the sub-grid of an overloaded block and its counts (split_overloaded)
InnerRaster(ob) == View(raster, ob)
InnerCounts(ob) == get_counts(InnerRaster(ob), InnerRaster(ob)[<<0, 0>>])

\* C16 Shape growth stops at the grid boundary: for every start cell, those
\* in the last column or the last row of the grid or of the sub-grid of an
\* overloaded block included, the locator reads no cell outside the grid and
\* yields a rectangle inside the grid.
GrowthStopsAtBoundary ==
    /\ (pc = "scanning" /\ NonZero(counts) # {}) =>
            LocatesInside(raster, Normalised(counts))
    /\ (pc = "resolving" /\ overloaded # <<>>) =>
            \A k \in DOMAIN overloaded :
                LocatesInside(InnerRaster(overloaded[k]),
                              InnerCounts(overloaded[k]))


----------------------------------------------------------------------------
(* The calls of get_counts on their own, one step per pass of its loops. *)

\* the small rasters have CountH rows and CountW columns
CountH == 2
CountW == 3

\* the shortest run of equal values whose length a count cannot hold
LongRun == CountsMod

CountGrids ==
    [(0 .. (CountH - 1)) \X (0 .. (CountW - 1)) -> 0 .. MaxValue]

\* one row and one column of LongRun cells of the value v
LongRow(v) == [p \in {0} \X (0 .. (LongRun - 1)) |-> v]
LongCol(v) == [p \in (0 .. (LongRun - 1)) \X {0} |-> v]

\* np.where(a == b, _1, _0)
Continue(p, q) == IF raster[p] = raster[q] THEN 1 ELSE 0

\* the zero matrix and its first column
CountStart ==
    /\ pc = "count_call"
    /\ counts' = [p \in DOMAIN raster |->
                    IF p[2] = 0 THEN Adding(raster, outvalue, p) ELSE 0]
    /\ pos' = 1
    /\ pc' = "count_x"
    /\ UNCHANGED <<raster, err, block_shape, outvalue, blocks, _blocks,
                   multiblocks, overloaded, tol, _last_adding>>
    /\ UNCHANGED inlay_idle

\* one pass of `for c in range(1, width)`
CountColumn ==
    /\ pc = "count_x"
    /\ pos < Width(raster)
    /\ counts' = [p \in DOMAIN raster |->
                    IF p[2] = pos
                    THEN (Continue(p, <<p[1], pos - 1>>)
                              * counts[<<p[1], pos - 1>>]
                            + Adding(raster, outvalue, p)) % CountsMod
                    ELSE counts[p]]
    /\ pos' = pos + 1
    /\ UNCHANGED <<raster, pc, err, block_shape, outvalue, blocks, _blocks,
                   multiblocks, overloaded, tol, _last_adding>>
    /\ UNCHANGED inlay_idle

\* the loop along the x axis is done: _last_row, _last_adding
CountTurn ==
    /\ pc = "count_x"
    /\ pos = Width(raster)
    /\ _last_adding' = [c \in 0 .. (Width(raster) - 1) |->
                          Adding(raster, outvalue, <<0, c>>)]
    /\ pos' = 1
    /\ pc' = "count_y"
    /\ UNCHANGED <<raster, err, block_shape, outvalue, counts, blocks,
                   _blocks, multiblocks, overloaded, tol>>
    /\ UNCHANGED inlay_idle

\* one pass of `for r in range(1, height)`
CountRow ==
    /\ pc = "count_y"
    /\ pos < Height(raster)
    /\ \E continued \in
            {[c \in DOMAIN _last_adding |->
                (_last_adding[c] * Continue(<<pos, c>>, <<pos - 1, c>>))
                    % CountsMod]} :
          /\ counts' = [p \in DOMAIN raster |->
                          IF p[1] = pos
                          THEN (counts[p] + continued[p[2]]) % CountsMod
                          ELSE counts[p]]
          /\ _last_adding' = [c \in DOMAIN _last_adding |->
                                (continued[c]
                                   + Adding(raster, outvalue, <<pos, c>>))
                                    % CountsMod]
    /\ pos' = pos + 1
    /\ UNCHANGED <<raster, pc, err, block_shape, outvalue, blocks, _blocks,
                   multiblocks, overloaded, tol>>
    /\ UNCHANGED inlay_idle

\* return counts
CountReturn ==
    /\ pc = "count_y"
    /\ pos = Height(raster)
    /\ pc' = "counted"
    /\ UNCHANGED <<raster, err, blocks_vars>>
    /\ UNCHANGED inlay_idle

InitCounts ==
    /\ outvalue \in 0 .. MaxValue
    /\ raster \in CountGrids
                    \cup { LongRow(v) : v \in (0 .. MaxValue) \ {outvalue} }
                    \cup { LongCol(v) : v \in (0 .. MaxValue) \ {outvalue} }
    /\ counts = <<>>
    /\ _last_adding = <<>>
    /\ pos = 0
    /\ pc = "count_call"
    /\ err = "none"
    /\ block_shape = <<1, 1>>
    /\ blocks = <<>>
    /\ _blocks = <<>>
    /\ multiblocks = <<>>
    /\ overloaded = <<>>
    /\ tol = DefaultTolerance
    /\ constraints = <<>>
    /\ bblocks = <<>>
    /\ cell_unit = 1
    /\ cell_max = 1
    /\ invalid_in = "none"
    /\ invalid_value = 0
    /\ i = 0
    /\ block_report = <<>>
    /\ capacities = <<>>
    /\ _capacity = None
    /\ raster_pre = <<>>
    /\ invalid_mask = {}
    /\ raster_total = 0
    /\ _data_total_initial = 0
    /\ block_capacity = 0
    /\ _raster_block_orig = None

NextCounts ==
    \/ CountStart
    \/ CountColumn
    \/ CountTurn
    \/ CountRow
    \/ CountReturn

SpecCounts == InitCounts /\ [][NextCounts]_vars

----------------------------------------------------------------------------
(* What the claims about get_counts speak of. *)

Counted == pc = "counted"

\* the cells left of p in its row, and above p in its column, whose value is
\* not that of p
BreaksLeft(p) == { c \in 0 .. p[2] : raster[<<p[1], c>>] # raster[p] }
BreaksAbove(p) == { r \in 0 .. p[1] : raster[<<r, p[2]>>] # raster[p] }

MaxOf(S) == CHOOSE m \in S : \A n \in S : n <= m

\* the length of the run of equal values that ends at p, along its row and
\* along its column
HorizontalRun(p) ==
    IF BreaksLeft(p) = {} THEN p[2] + 1 ELSE p[2] - MaxOf(BreaksLeft(p))

VerticalRun(p) ==
    IF BreaksAbove(p) = {} THEN p[1] + 1 ELSE p[1] - MaxOf(BreaksAbove(p))

\* C17 Run-count semantics: get_counts returns 0 at exactly the cells of the
\* sentinel value, and at every other cell the length of the horizontal run
\* of equal values ending there plus the length of the vertical run of equal
\* values ending there, minus 1.
RunCountSemantics ==
    Counted =>
        \A p \in DOMAIN raster :
            counts[p] = IF raster[p] = outvalue THEN 0
                        ELSE HorizontalRun(p) + VerticalRun(p) - 1


----------------------------------------------------------------------------
(* What the claims about the sentinel value speak of. *)

\* C22 Sentinel exclusion: for every sentinel value handed to find_blocks as
\* outvalue, the default 0 or another, no rectangle of the returned list
\* holds a cell of that value, the rectangles found while resolving the
\* overloaded blocks included.
SentinelExclusion ==
    FindReturned => EmittedCells \cap SentinelCells = {}

============================================================================
